---- MODULE Spec2Model ----
(***************************************************************************)
(* Relay-style cursor pagination of graphql/schemabuilder/pagination.go.   *)
(*                                                                         *)
(* Go values are modelled as follows.                                      *)
(*   - a string is the sequence of its bytes, so "" is <<>> and "MQ==" is  *)
(*     <<77, 81, 61, 61>>;                                                 *)
(*   - a value that may be nil (a pointer to an int64 or a string, a func  *)
(*     value, an error, an interface) is a sequence of length at most one: *)
(*     Nil is <<>> and Ptr(v) is <<v>>;                                    *)
(*   - a slice is a sequence, the nil slice is <<>>;                       *)
(*   - a struct is a record with the Go field names.                       *)
(*                                                                         *)
(* A Go function is one operator of the same name; where the function has  *)
(* several steps, each step is an operator of its own that takes the       *)
(* values of the steps before it as parameters.                            *)
(***************************************************************************)
EXTENDS Integers, Sequences, FiniteSets, TLC

VARIABLES
    c,          \* the field's connectionContext, built by buildPaginatedField
    args,       \* the parsed arguments of the request being resolved
    out,        \* what the wrapped resolver returns when it is called
    result,     \* what Resolve returned: (interface{}, error)
    pc,         \* "ready": the request is not resolved yet, "done": it is
    page,       \* 0, or the 1-based index of the page marker the request follows
    method,     \* the signature of the resolver the field is built from
    field,      \* what buildPaginatedField returned: (*graphql.Field, error)
    trail,      \* the pages a client walking the list forward has received
    reqs        \* the requests the field resolves concurrently, each with its locals

vars == <<c, args, out, result, pc, page, method, field, trail, reqs>>

----------------------------------------------------------------------------
(* Bounds of the model.                                                    *)

\* The longest list a resolver returns.
MaxLen == 3
\* The largest first/last a request carries (the smallest is -1).
MaxCount == 2

----------------------------------------------------------------------------
(* Pointers and strings.                                                   *)

Nil == <<>>
Ptr(v) == <<v>>
IsNil(p) == Len(p) = 0
Deref(p) == p[1]

\* Go's truncated remainder a % b, for a >= 0 and b # 0.
GoRem(a, b) == IF b > 0 THEN a % b ELSE a % (0 - b)

\* strconv's decimal digits of n >= 0.
RECURSIVE formatBits(_)
formatBits(n) ==
    IF n < 10 THEN <<48 + n>> ELSE formatBits(n \div 10) \o <<48 + (n % 10)>>

\* fmt.Sprintf("%v", v) of a key field: an int64 prints in decimal with a
\* leading '-' when negative, a string prints as itself.
Sprintf(v) ==
    IF v.kind = "int64"
    THEN IF v.int < 0 THEN <<45>> \o formatBits(0 - v.int) ELSE formatBits(v.int)
    ELSE v.str

\* The byte encoding the 6-bit value x in base64.StdEncoding's alphabet.
encodeStd(x) ==
    IF x < 26 THEN 65 + x
    ELSE IF x < 52 THEN 97 + (x - 26)
    ELSE IF x < 62 THEN 48 + (x - 52)
    ELSE IF x = 62 THEN 43 ELSE 47

\* base64.StdEncoding.EncodeToString: 3 bytes become 4 characters, a last
\* group of 1 or 2 bytes is padded with '='.
RECURSIVE EncodeToString(_)
EncodeToString(src) ==
    IF Len(src) = 0 THEN <<>>
    ELSE IF Len(src) = 1 THEN
        LET val == src[1] * 65536
        IN  <<encodeStd((val \div 262144) % 64), encodeStd((val \div 4096) % 64), 61, 61>>
    ELSE IF Len(src) = 2 THEN
        LET val == src[1] * 65536 + src[2] * 256
        IN  <<encodeStd((val \div 262144) % 64), encodeStd((val \div 4096) % 64),
              encodeStd((val \div 64) % 64), 61>>
    ELSE
        LET val == src[1] * 65536 + src[2] * 256 + src[3]
        IN  <<encodeStd((val \div 262144) % 64), encodeStd((val \div 4096) % 64),
              encodeStd((val \div 64) % 64), encodeStd(val % 64)>>
            \o EncodeToString(SubSeq(src, 4, Len(src)))

----------------------------------------------------------------------------
(* The data model.                                                         *)

\* Connection{}: the zero value.
ZeroPageInfo ==
    [HasNextPage |-> FALSE, EndCursor |-> <<>>, HasPrevPage |-> FALSE,
     StartCursor |-> <<>>, Pages |-> <<>>]

ZeroConnection == [TotalCount |-> 0, Edges |-> <<>>, PageInfo |-> ZeroPageInfo]

Limit(p) ==
    IF ~IsNil(p.First) THEN Deref(p.First)
    ELSE IF ~IsNil(p.Last) THEN Deref(p.Last)
    ELSE 0

TotalCount(i) ==
    IF IsNil(i.TotalCountFunc) THEN 0 ELSE Deref(i.TotalCountFunc)

embedsPaginationArgs(cc) == cc.PaginationArgsIndex # -1

IsExternallyManaged(cc) == embedsPaginationArgs(cc) \/ cc.ReturnsPageInfo

\* Validate that wants PaginationInfo for embedded arguments and not the
\* other way round.
ValidateOneWay(cc) == ~(embedsPaginationArgs(cc) /\ ~cc.ReturnsPageInfo)

\* Validate returns nil (TRUE here) or an error (FALSE).
Validate(cc) ==
    ~(IsExternallyManaged(cc) /\ ~(embedsPaginationArgs(cc) /\ cc.ReturnsPageInfo))

safeInt64Ptr(i) == IF IsNil(i) THEN 0 ELSE Deref(i)

----------------------------------------------------------------------------
(* The windowing algorithm.                                                *)

\* The 0-based index of the first edge whose cursor is `cursor`, or -1.
RECURSIVE cursorIndexFrom(_, _, _)
cursorIndexFrom(edges, cursor, i) ==
    IF i >= Len(edges) THEN -1
    ELSE IF edges[i + 1].Cursor = cursor THEN i
    ELSE cursorIndexFrom(edges, cursor, i + 1)

getCursorIndex(edges, cursor) == cursorIndexFrom(edges, cursor, 0)

\* edges[lo:hi] of Go, 0-based and half open.
Slice(edges, lo, hi) == SubSeq(edges, lo + 1, hi)

\* cutAfter with edges[i:], which keeps the edge the cursor names.
cutAfterInclusive(edges, i) ==
    [edges |-> IF i # -1 THEN Slice(edges, i, Len(edges)) ELSE edges,
     elemsBefore |-> i # -1 /\ i # 0]

\* cutAfter without its found check: a cursor that is not found (i = -1) cuts
\* at edges[0:] and counts as preceded.
cutAfterUnguarded(edges, i) ==
    [edges |-> Slice(edges, i + 1, Len(edges)), elemsBefore |-> i # 0]

\* Lines 300-305: i is the index of the after cursor in edges.
cutAfter(edges, i) ==
    [edges |-> IF i # -1 THEN Slice(edges, i + 1, Len(edges)) ELSE edges,
     elemsBefore |-> i # -1 /\ i # 0]

\* Lines 298-307: the `if after != nil` branch of applyCursorsToAllEdges.
afterBranch(edges, after) ==
    IF IsNil(after) THEN [edges |-> edges, elemsBefore |-> FALSE]
    ELSE cutAfter(edges, getCursorIndex(edges, Deref(after)))

\* cutBefore with edges[:i+1], which keeps the edge the cursor names.
cutBeforeInclusive(cut, edgeCount, i) ==
    [edges |-> IF i # -1 THEN Slice(cut.edges, 0, i + 1) ELSE cut.edges,
     elemsAfter |-> i # -1 /\ i # edgeCount - 1,
     elemsBefore |-> cut.elemsBefore]

\* Lines 310-315: i is the index of the before cursor in the edges the after
\* branch left, edgeCount the length before any cut.
cutBefore(cut, edgeCount, i) ==
    [edges |-> IF i # -1 THEN Slice(cut.edges, 0, i) ELSE cut.edges,
     elemsAfter |-> i # -1 /\ i # edgeCount - 1,
     elemsBefore |-> cut.elemsBefore]

\* Lines 308-317: the `if before != nil` branch, on what the after branch left.
beforeBranch(cut, edgeCount, before) ==
    IF IsNil(before)
    THEN [edges |-> cut.edges, elemsAfter |-> FALSE, elemsBefore |-> cut.elemsBefore]
    ELSE cutBefore(cut, edgeCount, getCursorIndex(cut.edges, Deref(before)))

applyCursorsToAllEdges(edges, before, after) ==
    beforeBranch(afterBranch(edges, after), Len(edges), before)

\* graphql.NewClientError(...) of the two rejections.
ErrNegative == "first/last cannot be a negative integer"
ErrBothSet == "Cannot use both first and last together"

\* Lines 27-28 of paginateManually: the edges and flags the cursors give.
setCursorFlags(conn, a, cut) ==
    [conn EXCEPT !.Edges = cut.edges,
                 !.PageInfo.HasNextPage = ~IsNil(a.Before) /\ cut.elemsAfter,
                 !.PageInfo.HasPrevPage = ~IsNil(a.After) /\ cut.elemsBefore]

\* The error of paginateManually's two checks, the negative one first.
checkCounts(a) ==
    IF safeInt64Ptr(a.First) < 0 \/ safeInt64Ptr(a.Last) < 0 THEN Ptr(ErrNegative)
    ELSE IF ~IsNil(a.First) /\ ~IsNil(a.Last) THEN Ptr(ErrBothSet)
    ELSE Nil

\* truncateFirst without forcing HasNextPage.
truncateFirstNoFlag(conn, a) ==
    IF ~IsNil(a.First) /\ Len(conn.Edges) > Deref(a.First)
    THEN [conn EXCEPT !.Edges = Slice(conn.Edges, 0, Deref(a.First))]
    ELSE conn

\* truncateFirst that also flags a list of exactly first edges.
truncateFirstEager(conn, a) ==
    IF ~IsNil(a.First) /\ Len(conn.Edges) >= Deref(a.First)
    THEN [conn EXCEPT !.Edges = Slice(conn.Edges, 0, Deref(a.First)),
                      !.PageInfo.HasNextPage = TRUE]
    ELSE conn

\* Lines 38-41 of paginateManually.
truncateFirst(conn, a) ==
    IF ~IsNil(a.First) /\ Len(conn.Edges) > Deref(a.First)
    THEN [conn EXCEPT !.Edges = Slice(conn.Edges, 0, Deref(a.First)),
                      !.PageInfo.HasNextPage = TRUE]
    ELSE conn

\* Lines 43-46 of paginateManually.
truncateLast(conn, a) ==
    IF ~IsNil(a.Last) /\ Len(conn.Edges) > Deref(a.Last)
    THEN [conn EXCEPT !.Edges = Slice(conn.Edges, Len(conn.Edges) - Deref(a.Last),
                                      Len(conn.Edges)),
                      !.PageInfo.HasPrevPage = TRUE]
    ELSE conn

\* paginateManually from its checks on: conn has the cursors applied, err is
\* what the checks gave.
checkAndTruncate(conn, a, err) ==
    IF ~IsNil(err) THEN [conn |-> conn, err |-> err]
    ELSE [conn |-> truncateLast(truncateFirst(conn, a), a), err |-> Nil]

\* The connection after Connection.paginateManually(args), with the error it
\* returned (Nil for none).
paginateManually(conn, a) ==
    checkAndTruncate(
        setCursorFlags(conn, a, applyCursorsToAllEdges(conn.Edges, a.Before, a.After)),
        a, checkCounts(a))

\* setCursors with the two cursors exchanged.
setCursorsSwapped(conn) ==
    IF Len(conn.Edges) = 0 THEN conn
    ELSE [conn EXCEPT !.PageInfo.EndCursor = conn.Edges[1].Cursor,
                      !.PageInfo.StartCursor = conn.Edges[Len(conn.Edges)].Cursor]

setCursors(conn) ==
    IF Len(conn.Edges) = 0 THEN conn
    ELSE [conn EXCEPT !.PageInfo.EndCursor = conn.Edges[Len(conn.Edges)].Cursor,
                      !.PageInfo.StartCursor = conn.Edges[1].Cursor]

externallySetPageInfo(conn, info) ==
    [conn EXCEPT !.PageInfo.HasNextPage = info.HasNextPage,
                 !.PageInfo.HasPrevPage = info.HasPrevPage,
                 !.TotalCount = TotalCount(info)]

----------------------------------------------------------------------------
(* Edges and page markers.                                                 *)

\* The Edge getEdges appends for a node: a node is a struct with the key field
\* `key`, the cursor is the base64 of the key's printed form.
edgeOf(key, node) ==
    [Node |-> node, Cursor |-> EncodeToString(Sprintf(node[key]))]

\* getEdges' loop from index i on.
RECURSIVE edgesFrom(_, _, _, _)
edgesFrom(key, nodes, i, edges) ==
    IF i >= Len(nodes) THEN edges
    ELSE edgesFrom(key, nodes, i + 1, Append(edges, edgeOf(key, nodes[i + 1])))

getEdges(key, nodes) == edgesFrom(key, nodes, 0, <<>>)

\* The blank cursor getPages appends at index 0.
withBlank(pages, i) == IF i = 0 THEN Append(pages, <<>>) ELSE pages

\* pushesCursor testing the index itself: it marks the edge that starts a page
\* instead of the one before it.
pushesCursorOffByOne(n, limit, i) ==
    limit # 0 /\ i # n - 1 /\ i # 0 /\ GoRem(i, limit) = 0

\* Whether getPages appends the cursor of the edge at index i of n edges.
pushesCursor(n, limit, i) ==
    limit # 0 /\ i # n - 1 /\ GoRem(i + 1, limit) = 0

\* The loop of getPages from index i on, `pages` being what it appended so far.
RECURSIVE pagesFrom(_, _, _, _)
pagesFrom(edges, limit, i, pages) ==
    IF i >= Len(edges) THEN pages
    ELSE IF pushesCursor(Len(edges), limit, i)
    THEN pagesFrom(edges, limit, i + 1, Append(withBlank(pages, i), edges[i + 1].Cursor))
    ELSE pagesFrom(edges, limit, i + 1, withBlank(pages, i))

getPages(edges, limit) == pagesFrom(edges, limit, 0, <<>>)

----------------------------------------------------------------------------
(* The connection assembler and the field's Resolve.                       *)

\* Lines 378-384 of getConnection: the connection before windowing.
newConnection(nodes, edges, limit) ==
    [TotalCount |-> Len(nodes), Edges |-> edges,
     PageInfo |-> [ZeroPageInfo EXCEPT !.Pages = getPages(edges, limit)]]

\* finishConnection counting the edges the window kept.
finishConnectionWindowCount(cc, o, paginated) ==
    IF ~IsNil(paginated.err) THEN [conn |-> ZeroConnection, err |-> paginated.err]
    ELSE IF IsExternallyManaged(cc)
    THEN [conn |-> externallySetPageInfo(setCursors(paginated.conn), Deref(o.info)),
          err |-> Nil]
    ELSE [conn |-> [setCursors(paginated.conn) EXCEPT
                       !.TotalCount = Len(paginated.conn.Edges)],
          err |-> Nil]

\* Lines 385-393 of getConnection, `paginated` being what paginateManually
\* left and returned.
finishConnection(cc, o, paginated) ==
    IF ~IsNil(paginated.err) THEN [conn |-> ZeroConnection, err |-> paginated.err]
    ELSE IF IsExternallyManaged(cc)
    THEN [conn |-> externallySetPageInfo(setCursors(paginated.conn), Deref(o.info)),
          err |-> Nil]
    ELSE [conn |-> setCursors(paginated.conn), err |-> Nil]

\* getConnection(out, args): (Connection, error).
getConnection(cc, o, a) ==
    IF Len(o.ret) = 0 THEN [conn |-> ZeroConnection, err |-> Nil]
    ELSE finishConnection(cc, o,
            paginateManually(newConnection(o.ret, getEdges(cc.Key, o.ret), Limit(a)), a))

\* The PaginationArgs extractPaginatedRetAndErr hands to getConnection: the
\* four directives of ConnectionArgs, or the embedded PaginationArgs field.
\* Both carry the request's First, Last, After and Before.
paginationArgsOf(cc, a) ==
    [First |-> a.First, Last |-> a.Last, After |-> a.After, Before |-> a.Before]

\* returnOf dropping the resolver's error when it came with a list.
returnOfLenient(cc, o, r) ==
    IF ~IsNil(r.err) THEN [ret |-> Nil, err |-> r.err]
    ELSE IF cc.hasError /\ ~IsNil(o.err) /\ Len(o.ret) = 0 THEN [ret |-> Nil, err |-> o.err]
    ELSE [ret |-> Ptr(r.conn), err |-> Nil]

\* Lines 616-625 of extractPaginatedRetAndErr, r being what getConnection
\* returned.
returnOf(cc, o, r) ==
    IF ~IsNil(r.err) THEN [ret |-> Nil, err |-> r.err]
    ELSE IF cc.hasError /\ ~IsNil(o.err) THEN [ret |-> Nil, err |-> o.err]
    ELSE [ret |-> Ptr(r.conn), err |-> Nil]

\* extractPaginatedRetAndErr(out, args, retType): (interface{}, error).
extractPaginatedRetAndErr(cc, o, a) ==
    returnOf(cc, o, getConnection(cc, o, paginationArgsOf(cc, a)))

\* The hasArgs the Resolve closure leaves in the shared context.
resolveHasArgs(cc, a) ==
    IF ~IsExternallyManaged(cc) THEN ~IsNil(a.Args) ELSE cc.hasArgs

----------------------------------------------------------------------------
(* The fields, requests and resolver results of the model.                 *)

Int64Key(i) == [kind |-> "int64", int |-> i, str |-> <<>>]
StringKey(s) == [kind |-> "string", int |-> 0, str |-> s]

\* Item{Id int64} nodes and nodes whose key field is a string ("" and "1").
IntNodes == {[Id |-> Int64Key(i)] : i \in {1, 2, 10}}
StringNodes == {[Id |-> StringKey(s)] : s \in {<<>>, <<49>>}}

SeqsUpTo(S, n) == UNION {[1..k -> S] : k \in 0..n}

\* A resolver returns a slice of one node type.
NodeLists == SeqsUpTo(IntNodes, MaxLen) \cup SeqsUpTo(StringNodes, MaxLen)

\* The cursors a client sends: "", and the cursors of the keys 1 and 2.
ClientCursors ==
    {<<>>} \cup {EncodeToString(Sprintf(Int64Key(i))) : i \in {1, 2}}

Counts == {Nil} \cup {Ptr(i) : i \in -1..MaxCount}
CursorArgs == {Nil} \cup {Ptr(s) : s \in ClientCursors}

\* The connectionContext buildPaginatedField leaves behind for a resolver that
\* embeds PaginationArgs or not, returns PaginationInfo or not, and returns an
\* error or not.
connectionContextOf(embeds, returnsPageInfo, hasError) ==
    [Key |-> "Id", ReturnsPageInfo |-> returnsPageInfo,
     PaginationArgsIndex |-> IF embeds THEN 0 ELSE -1,
     hasError |-> hasError, hasArgs |-> TRUE]

\* Only the contexts that pass Validate are built into a field.
Contexts ==
    {cc \in {connectionContextOf(e, r, h) : e \in BOOLEAN, r \in BOOLEAN, h \in BOOLEAN} :
        Validate(cc)}

\* The arguments the field's argument parser produces: ConnectionArgs, whose
\* Args is nil when the resolver takes no arguments, or the resolver's own
\* argument struct with PaginationArgs embedded.
RequestArgs(cc) ==
    [First : Counts, Last : Counts, After : CursorArgs, Before : CursorArgs,
     Args : IF IsExternallyManaged(cc) THEN {Nil} ELSE {Nil, Ptr("additional")}]

\* PaginationInfo{...} with a counting function (its count is none of the
\* list lengths of the model) or without one.
PaginationInfoOf(counts, hasNextPage, hasPrevPage) ==
    [TotalCountFunc |-> IF counts THEN Ptr(MaxLen + 2) ELSE Nil,
     HasNextPage |-> hasNextPage, HasPrevPage |-> hasPrevPage]

\* The PaginationInfo values resolvers return: the zero value, a counted first
\* page, an uncounted last page and a counted middle page.
PaginationInfos ==
    {PaginationInfoOf(FALSE, FALSE, FALSE), PaginationInfoOf(TRUE, TRUE, FALSE),
     PaginationInfoOf(FALSE, FALSE, TRUE), PaginationInfoOf(TRUE, TRUE, TRUE)}

\* What the resolver's call returns: out[0], the PaginationInfo when the
\* resolver returns one, and the error when it returns one.
ResolverResults(cc) ==
    [ret : NodeLists,
     info : IF cc.ReturnsPageInfo THEN {Ptr(i) : i \in PaginationInfos} ELSE {Nil},
     err : IF cc.hasError THEN {Nil, Ptr("this is an error")} ELSE {Nil}]

NoResult == [ret |-> Nil, err |-> Nil]

----------------------------------------------------------------------------
(* Building the field: buildPaginatedField on a resolver's signature.      *)

\* The most values a resolver signature of the model returns.
MaxOut == 4

\* The types of a resolver's return values.
errType == "error"
PaginationInfoType == "PaginationInfo"
ReturnTypes == {"[]Item", "Item", PaginationInfoType, errType}
\* reflect.Type.Kind of a return type.
Kind(t) ==
    IF t = "[]Item" THEN "slice" ELSE IF t = errType THEN "interface" ELSE "struct"

\* The schema names of the fields of PaginationArgs, which are those of the
\* fields of ConnectionArgs that are not of an interface type.
ReservedNames == {"first", "last", "after", "before"}

\* The types of a resolver's parameters once context and source are taken
\* off: the selection set, or an argument struct that embeds PaginationArgs
\* or not and declares fields, named here by their schema names.
selectionSetType == [name |-> "*graphql.SelectionSet", embeds |-> FALSE, fields |-> {}]
ArgStruct(embeds, fields) == [name |-> "Args", embeds |-> embeds, fields |-> fields]

\* A fresh connectionContext{}.
ZeroContext ==
    [Key |-> "", ReturnsPageInfo |-> FALSE, PaginationArgsIndex |-> 0,
     hasError |-> FALSE, hasArgs |-> FALSE]

indexOfPaginationArgs(argType) == IF argType.embeds THEN 0 ELSE -1

ErrRestricted == "these arg names are restricted: First, After, Last and Before"
ErrArguments == "arguments should be [context][, [*]typ][, args][, selectionSet]"
ErrReturnValues == "return values should [result][, error]"
ErrNoReturn == "is marked non-nullable, but has no return value"
ErrValidate == "If pagination args are embedded then pagination info must be included as a return value"
ErrNotSlice == "paginated field func must return a slice type"
ErrNotRegistered == "must be a struct and registered as an object along with its key"
ErrNoKey == "a key field must be registered for paginated objects"
ErrNoField == "field doesn't exist on struct"

\* An argument parser with the input object it declares: InputFields gives,
\* for each argument name of the schema, the struct whose field types it;
\* nested says whether there is a parser of the resolver's own arguments.
NoParser(err) == [err |-> Ptr(err), InputFields |-> <<>>, nested |-> FALSE]

\* buildEmbeddedPaginatedArgParser with the check of lines 690-693.
buildEmbeddedPaginatedArgParser(typ) ==
    IF typ.fields \cap ReservedNames # {}
    THEN NoParser(ErrRestricted)
    ELSE [err |-> Nil,
          InputFields |-> [n \in typ.fields \cup ReservedNames |->
                              IF n \in typ.fields THEN typ.name ELSE "PaginationArgs"],
          nested |-> FALSE]

\* buildPaginatedArgParser: the fields of ConnectionArgs, then the fields of
\* the resolver's argument struct written over them (lines 789-791).
buildPaginatedArgParser(originalArgType) ==
    IF IsNil(originalArgType)
    THEN [err |-> Nil,
          InputFields |-> [n \in ReservedNames |-> "ConnectionArgs"],
          nested |-> FALSE]
    ELSE [err |-> Nil,
          InputFields |-> [n \in ReservedNames \cup Deref(originalArgType).fields |->
                              IF n \in Deref(originalArgType).fields
                              THEN Deref(originalArgType).name ELSE "ConnectionArgs"],
          nested |-> TRUE]

\* Lines 430-442: the resolver takes an argument struct; idx is what
\* indexOfPaginationArgs gave, and ReturnsPageInfo is not parsed yet.
consumeArgStruct(in, idx) ==
    [index |-> idx,
     parser |-> IF IsExternallyManaged([ZeroContext EXCEPT !.PaginationArgsIndex = idx])
                THEN buildEmbeddedPaginatedArgParser(in[1])
                ELSE buildPaginatedArgParser(Ptr(in[1])),
     in |-> Tail(in)]

consumePaginatedArgs(in) ==
    IF Len(in) > 0 /\ in[1] # selectionSetType
    THEN consumeArgStruct(in, indexOfPaginationArgs(in[1]))
    ELSE [index |-> -1, parser |-> buildPaginatedArgParser(Nil), in |-> in]

\* funcContext.consumeSelectionSet: a leading selection set parameter is
\* taken off.
consumeSelectionSet(in) ==
    IF Len(in) > 0 /\ in[1] = selectionSetType THEN Tail(in) ELSE in

\* Lines 488-491 of parsePaginatedReturnSignature: the value returned.
parseRet(outs) ==
    IF Len(outs) > 0 /\ outs[1] # errType
    THEN [out |-> Tail(outs), hasRet |-> TRUE]
    ELSE [out |-> outs, hasRet |-> FALSE]

\* Lines 493-496: the PaginationInfo after it.
parseInfo(p) ==
    IF Len(p.out) > 0 /\ p.out[1] = PaginationInfoType
    THEN [out |-> Tail(p.out), hasRet |-> p.hasRet, ReturnsPageInfo |-> TRUE]
    ELSE [out |-> p.out, hasRet |-> p.hasRet, ReturnsPageInfo |-> FALSE]

\* Lines 498-501: the error after them.
parseError(p) ==
    IF Len(p.out) > 0 /\ p.out[1] = errType
    THEN [out |-> Tail(p.out), hasRet |-> p.hasRet,
          ReturnsPageInfo |-> p.ReturnsPageInfo, hasError |-> TRUE]
    ELSE [out |-> p.out, hasRet |-> p.hasRet,
          ReturnsPageInfo |-> p.ReturnsPageInfo, hasError |-> FALSE]

\* parseRest that lets values follow the error.
parseRestLenient(p, MarkedNonNullable) ==
    [hasRet |-> p.hasRet, ReturnsPageInfo |-> p.ReturnsPageInfo, hasError |-> p.hasError,
     err |-> IF ~p.hasRet /\ MarkedNonNullable THEN Ptr(ErrNoReturn) ELSE Nil]

\* Lines 502-511: nothing may remain, and a non-nullable method returns a value.
parseRest(p, MarkedNonNullable) ==
    [hasRet |-> p.hasRet, ReturnsPageInfo |-> p.ReturnsPageInfo, hasError |-> p.hasError,
     err |-> IF Len(p.out) # 0 THEN Ptr(ErrReturnValues)
             ELSE IF ~p.hasRet /\ MarkedNonNullable THEN Ptr(ErrNoReturn)
             ELSE Nil]

parsePaginatedReturnSignature(outs, MarkedNonNullable) ==
    parseRest(parseError(parseInfo(parseRet(outs))), MarkedNonNullable)

\* The node types of the model: Item with its key field Id, registered with
\* the schema or not, with the key "Id", no key or the key of no field.
NodeTypes ==
    {[registered |-> r, key |-> k] : r \in {TRUE}, k \in {"Id", "", "Missing"}}
        \cup {[registered |-> FALSE, key |-> ""]}

getKeyFieldOnStruct(nodeType) ==
    IF ~nodeType.registered THEN [key |-> "", err |-> Ptr(ErrNotRegistered)]
    ELSE IF nodeType.key = "" THEN [key |-> "", err |-> Ptr(ErrNoKey)]
    ELSE IF nodeType.key # "Id" THEN [key |-> nodeType.key, err |-> Ptr(ErrNoField)]
    ELSE [key |-> nodeType.key, err |-> Nil]

\* What buildPaginatedField returns: no field and an error, or the field with
\* the context its Resolve closure holds, its Args and its argument parser.
NoField == [built |-> FALSE, err |-> Nil, c |-> ZeroContext, Args |-> <<>>, nested |-> FALSE]
BuildError(err) == [NoField EXCEPT !.err = err]

\* Lines 545-596: Validate, the slice check, the key, and the field.
buildValidated(m, consumed, cc) ==
    IF ~Validate(cc) THEN BuildError(Ptr(ErrValidate))
    ELSE IF Kind(m.out[1]) # "slice" THEN BuildError(Ptr(ErrNotSlice))
    ELSE IF ~IsNil(getKeyFieldOnStruct(m.node).err)
         THEN BuildError(getKeyFieldOnStruct(m.node).err)
    ELSE [built |-> TRUE, err |-> Nil,
          c |-> [cc EXCEPT !.Key = getKeyFieldOnStruct(m.node).key],
          Args |-> consumed.parser.InputFields, nested |-> consumed.parser.nested]

\* Lines 542-544: the return signature is parsed into the context, whose
\* hasArgs line 531 has set.
buildParsed(m, consumed, parsed) ==
    IF ~IsNil(parsed.err) THEN BuildError(parsed.err)
    ELSE buildValidated(m, consumed,
            [ZeroContext EXCEPT !.PaginationArgsIndex = consumed.index,
                                !.hasArgs = TRUE,
                                !.ReturnsPageInfo = parsed.ReturnsPageInfo,
                                !.hasError = parsed.hasError])

\* Lines 527-540: the arguments are consumed, and none may remain.
buildConsumed(m, consumed) ==
    IF ~IsNil(consumed.parser.err) THEN BuildError(consumed.parser.err)
    ELSE IF Len(consumeSelectionSet(consumed.in)) # 0 THEN BuildError(Ptr(ErrArguments))
    ELSE buildParsed(m, consumed, parsePaginatedReturnSignature(m.out, TRUE))

buildPaginatedField(m) == buildConsumed(m, consumePaginatedArgs(m.in))

\* The resolver signatures of the model: the parameter types after context
\* and source, the return types, and the node type of the list.
InputTypes ==
    {selectionSetType}
        \cup {ArgStruct(e, f) : e \in BOOLEAN, f \in SUBSET {"first", "additional"}}
Methods == [in : SeqsUpTo(InputTypes, 2), out : SeqsUpTo(ReturnTypes, MaxOut), node : NodeTypes]
NoMethod == [in |-> <<>>, out |-> <<>>, node |-> [registered |-> FALSE, key |-> ""]]

----------------------------------------------------------------------------
(* The state machine: a built field resolves requests.                     *)

Init ==
    /\ c \in Contexts
    /\ args \in RequestArgs(c)
    /\ out \in ResolverResults(c)
    /\ result = NoResult
    /\ pc = "ready"
    /\ page = 0
    /\ method = NoMethod
    /\ field = NoField
    /\ trail = <<>>
    /\ reqs = <<>>

\* graphql.Field.Resolve of buildPaginatedField: set hasArgs, call the
\* resolver, wrap what it returned.
Resolve ==
    /\ pc = "ready"
    /\ c' = [c EXCEPT !.hasArgs = resolveHasArgs(c, args)]
    /\ result' = extractPaginatedRetAndErr(c, out, args)
    /\ pc' = "done"
    /\ UNCHANGED <<args, out, page, method, field, trail, reqs>>

\* The client follows page marker i of the connection it received: the same
\* field over the unchanged list, with after = Pages[i].
GoToPage ==
    /\ pc = "done"
    /\ ~IsNil(result.ret)
    /\ ~IsNil(args.First) /\ IsNil(args.Last) /\ IsNil(args.Before)
    /\ \E i \in 1..Len(Deref(result.ret).PageInfo.Pages) :
        LET a == [args EXCEPT !.After = Ptr(Deref(result.ret).PageInfo.Pages[i])] IN
        /\ args' = a
        /\ page' = i
        /\ c' = [c EXCEPT !.hasArgs = resolveHasArgs(c, a)]
        /\ result' = extractPaginatedRetAndErr(c, out, a)
    /\ UNCHANGED <<out, pc, method, field, trail, reqs>>

Next == Resolve \/ GoToPage

Spec == Init /\ [][Next]_vars

----------------------------------------------------------------------------
(* The state machine of the schema build: a resolver becomes a field.      *)

\* No request is resolved while the schema is built.
NoArgs == [First |-> Nil, Last |-> Nil, After |-> Nil, Before |-> Nil, Args |-> Nil]
NoOut == [ret |-> <<>>, info |-> Nil, err |-> Nil]

InitBuild ==
    /\ method \in Methods
    /\ field = NoField
    /\ c = ZeroContext
    /\ pc = "build"
    /\ args = NoArgs
    /\ out = NoOut
    /\ result = NoResult
    /\ page = 0
    /\ trail = <<>>
    /\ reqs = <<>>

\* buildPaginatedField on the method: the field and its context, or an error.
Build ==
    /\ pc = "build"
    /\ field' = buildPaginatedField(method)
    /\ c' = field'.c
    /\ pc' = "built"
    /\ UNCHANGED <<method, args, out, result, page, trail, reqs>>

NextBuild == Build

SpecBuild == InitBuild /\ [][NextBuild]_vars

----------------------------------------------------------------------------
(* The state machine of a forward traversal: a client pages through the    *)
(* unchanged list of a framework-managed field, first = L at every request *)
(* and after = the EndCursor of the page before.                           *)

InitTraverse ==
    /\ c \in {cc \in Contexts : ~IsExternallyManaged(cc)}
    /\ args \in {a \in RequestArgs(c) :
                    /\ ~IsNil(a.First) /\ Deref(a.First) >= 1
                    /\ IsNil(a.Last) /\ IsNil(a.After) /\ IsNil(a.Before)}
    /\ out \in {o \in ResolverResults(c) : IsNil(o.err)}
    /\ result = NoResult
    /\ pc = "ready"
    /\ page = 0
    /\ method = NoMethod
    /\ field = NoField
    /\ trail = <<>>
    /\ reqs = <<>>

\* The first request: Resolve, and the client keeps the page.
FirstPage ==
    /\ pc = "ready"
    /\ c' = [c EXCEPT !.hasArgs = resolveHasArgs(c, args)]
    /\ result' = extractPaginatedRetAndErr(c, out, args)
    /\ trail' = <<result'.ret>>
    /\ pc' = "done"
    /\ UNCHANGED <<args, out, page, method, field, reqs>>

\* While the page says HasNextPage the client asks for the page after its
\* EndCursor. A client is followed for one request more than the list has
\* nodes.
NextPage ==
    /\ pc = "done"
    /\ ~IsNil(result.ret)
    /\ Deref(result.ret).PageInfo.HasNextPage
    /\ Len(trail) <= Len(out.ret)
    /\ args' = [args EXCEPT !.After = Ptr(Deref(result.ret).PageInfo.EndCursor)]
    /\ c' = [c EXCEPT !.hasArgs = resolveHasArgs(c, args')]
    /\ result' = extractPaginatedRetAndErr(c, out, args')
    /\ trail' = Append(trail, result'.ret)
    /\ UNCHANGED <<out, pc, page, method, field, reqs>>

NextTraverse == FirstPage \/ NextPage

SpecTraverse == InitTraverse /\ [][NextTraverse]_vars

----------------------------------------------------------------------------
(* The state machine of concurrent requests: the Resolve closure of one    *)
(* framework-managed field runs for several requests at once, each request *)
(* a goroutine that shares the connectionContext c of the closure.        *)

\* The requests in flight at once.
MaxRequests == 2

ErrParsingArgs == "error in parsing args"
ErrNestedArgs == "the resolver's argument parser refused the arguments"

\* asMap[name] parsed into a pointer field: nil when the name is absent.
parsedPointer(asMap, name) == IF name \in DOMAIN asMap THEN Ptr(asMap[name]) ELSE Nil
\* Lines 810-815: the fields of asMap that are not fields of ConnectionArgs.
nestedArgFields(asMap) == [n \in (DOMAIN asMap) \ ReservedNames |-> asMap[n]]
\* Lines 801-807: the four pagination fields of ConnectionArgs.
parsedConnectionArgs(asMap, Args) ==
    [First |-> parsedPointer(asMap, "first"), Last |-> parsedPointer(asMap, "last"),
     After |-> parsedPointer(asMap, "after"), Before |-> parsedPointer(asMap, "before"),
     Args |-> Args]

\* FromJSON that allocates Args only when the request names a field of the
\* resolver's arguments.
FromJSONSparseArgs(nested, asMap, nestedErr) ==
    IF DOMAIN nestedArgFields(asMap) = {}
    THEN [err |-> Nil, dest |-> parsedConnectionArgs(asMap, Nil)]
    ELSE IF ~nested THEN [err |-> Ptr(ErrParsingArgs), dest |-> NoArgs]
    ELSE IF ~IsNil(nestedErr) THEN [err |-> nestedErr, dest |-> NoArgs]
    ELSE [err |-> Nil, dest |-> parsedConnectionArgs(asMap, Ptr(nestedArgFields(asMap)))]

\* FromJSON of the parser buildPaginatedArgParser returns (lines 795-833);
\* nested says that nestedArgParser is not nil, nestedErr is what its
\* FromJSON returns for the nested fields.
FromJSON(nested, asMap, nestedErr) ==
    IF ~nested
    THEN IF DOMAIN nestedArgFields(asMap) # {}
         THEN [err |-> Ptr(ErrParsingArgs), dest |-> NoArgs]
         ELSE [err |-> Nil, dest |-> parsedConnectionArgs(asMap, Nil)]
    ELSE IF ~IsNil(nestedErr) THEN [err |-> nestedErr, dest |-> NoArgs]
    ELSE [err |-> Nil, dest |-> parsedConnectionArgs(asMap, Ptr(nestedArgFields(asMap)))]

\* The arguments of a request as the client sent them: first or not, a field
\* of the resolver's own arguments or not.
JSONs ==
    {[n \in D |-> IF n = "first" THEN 1 ELSE 7] : D \in SUBSET {"first", "additional"}}

\* A request before its arguments are parsed. wrote is the hasArgs it has
\* stored in c, seen the values of c.hasArgs it has loaded, in the argument
\* list it has prepared for the resolver.
NewRequest(asMap) ==
    [pc |-> "parse", json |-> asMap, args |-> NoArgs, wrote |-> Nil, seen |-> <<>>,
     argsVal |-> Nil, in |-> <<>>, result |-> NoResult]

\* The fields of the model that requests resolve concurrently: framework
\* managed, built from a resolver that returns its list only.
ConcurrentMethods ==
    {m \in Methods :
        /\ Len(m.in) <= 1 /\ m.out = <<"[]Item">>
        /\ buildPaginatedField(m).built
        /\ ~IsExternallyManaged(buildPaginatedField(m).c)}

InitConcurrent ==
    /\ method \in ConcurrentMethods
    /\ field = buildPaginatedField(method)
    /\ c = field.c
    /\ reqs \in [1..MaxRequests -> {NewRequest(j) : j \in JSONs}]
    /\ out \in {o \in ResolverResults(c) : Len(o.ret) <= 1 /\ o.ret \in SeqsUpTo(IntNodes, 1)}
    /\ pc = "serving"
    /\ args = NoArgs
    /\ result = NoResult
    /\ page = 0
    /\ trail = <<>>

\* What a load of c.hasArgs by request r can give: r has stored before it
\* loads, and the stores of the other requests are not ordered with the load,
\* so the load gives the value r stored or a value another request stored.
Visible(r) ==
    {Deref(reqs[q].wrote) : q \in {q \in 1..MaxRequests : ~IsNil(reqs[q].wrote)}}

\* graphql.Field.ParseArguments: the field's parser fills a ConnectionArgs.
ParseArguments(r) ==
    /\ reqs[r].pc = "parse"
    /\ \E nestedErr \in {Nil, Ptr(ErrNestedArgs)} :
        reqs' = [reqs EXCEPT
                    ![r].pc = IF IsNil(FromJSON(field.nested, reqs[r].json, nestedErr).err)
                              THEN "resolve" ELSE "failed",
                    ![r].args = FromJSON(field.nested, reqs[r].json, nestedErr).dest]
    /\ UNCHANGED <<c, args, out, result, pc, page, method, field, trail>>

\* Lines 570-575 of Resolve: c.hasArgs = val.Args != nil.
StoreHasArgs(r) ==
    /\ reqs[r].pc = "resolve"
    /\ ~IsExternallyManaged(c)
    /\ c' = [c EXCEPT !.hasArgs = ~IsNil(reqs[r].args.Args)]
    /\ reqs' = [reqs EXCEPT ![r].pc = "stored",
                            ![r].wrote = Ptr(~IsNil(reqs[r].args.Args))]
    /\ UNCHANGED <<args, out, result, pc, page, method, field, trail>>

\* Lines 576-578: if c.hasArgs, argsVal is what val.Args points to (the call
\* panics on a nil Args); otherwise argsVal stays the ConnectionArgs.
LoadHasArgs(r) ==
    /\ reqs[r].pc = "stored"
    /\ \E hasArgs \in Visible(r) :
        reqs' = [reqs EXCEPT
                    ![r].pc = IF hasArgs /\ IsNil(reqs[r].args.Args)
                              THEN "panic" ELSE "loaded",
                    ![r].seen = Append(@, hasArgs),
                    ![r].argsVal = IF hasArgs THEN reqs[r].args.Args
                                   ELSE Ptr(reqs[r].args)]
    /\ UNCHANGED <<c, args, out, result, pc, page, method, field, trail>>

\* Line 581, funcContext.prepareResolveArgs: the argument list of the call
\* has argsVal when c.hasArgs is set.
prepareResolveArgs(r) ==
    /\ reqs[r].pc = "loaded"
    /\ \E hasArgs \in Visible(r) :
        reqs' = [reqs EXCEPT
                    ![r].pc = "prepared",
                    ![r].seen = Append(@, hasArgs),
                    ![r].in = IF hasArgs THEN <<reqs[r].argsVal>> ELSE <<>>]
    /\ UNCHANGED <<c, args, out, result, pc, page, method, field, trail>>

\* Lines 583-586: the resolver is called and its list wrapped.
Call(r) ==
    /\ reqs[r].pc = "prepared"
    /\ reqs' = [reqs EXCEPT
                    ![r].pc = "done",
                    ![r].result = extractPaginatedRetAndErr(c, out, reqs[r].args)]
    /\ UNCHANGED <<c, args, out, result, pc, page, method, field, trail>>

NextConcurrent ==
    \E r \in 1..MaxRequests :
        \/ ParseArguments(r)
        \/ StoreHasArgs(r)
        \/ LoadHasArgs(r)
        \/ prepareResolveArgs(r)
        \/ Call(r)

SpecConcurrent == InitConcurrent /\ [][NextConcurrent]_vars

----------------------------------------------------------------------------
(* Vocabulary of the properties.                                           *)

Done == pc = "done"
FrameworkManaged == ~IsExternallyManaged(c)
Returned == Done /\ ~IsNil(result.ret)
Conn == Deref(result.ret)
N == Len(out.ret)
\* The cursor the codec gives node i of the resolver's list.
CursorOf(i) == EncodeToString(Sprintf(out.ret[i].Id))
FullCursors == {CursorOf(i) : i \in 1..N}
\* The edges of the resolver's full list, in its order.
FullEdges == [i \in 1..N |-> [Node |-> out.ret[i], Cursor |-> CursorOf(i)]]
Matches(p) == ~IsNil(p) /\ Deref(p) \in FullCursors
MatchesNone(p) == ~IsNil(p) /\ Deref(p) \notin FullCursors
IsClientError(r) == IsNil(r.ret) /\ r.err \in {Ptr(ErrNegative), Ptr(ErrBothSet)}
DistinctKeys == \A i, j \in 1..N : i # j => out.ret[i].Id # out.ret[j].Id
NoEmptyKeyText == \A i \in 1..N : Sprintf(out.ret[i].Id) # <<>>
Min(a, b) == IF a < b THEN a ELSE b

----------------------------------------------------------------------------
(* C1..C10.                                                                *)

\* C1: a framework-managed request with both first and last set returns a
\* client error and no Connection, whatever list the resolver returned.
C1_BothSetIsClientError ==
    (Done /\ FrameworkManaged /\ ~IsNil(args.First) /\ ~IsNil(args.Last))
        => IsClientError(result)

\* C2: a request with first < 0 or last < 0 returns the negative-count client
\* error and no Connection, whatever list the resolver returned and also when
\* first and last are both set.
C2_NegativeIsClientError ==
    (Done /\ (safeInt64Ptr(args.First) < 0 \/ safeInt64Ptr(args.Last) < 0))
        => (IsNil(result.ret) /\ result.err = Ptr(ErrNegative))

\* C3 as stated: over a list of more than n nodes, first = n (last unset)
\* yields exactly n edges and HasNextPage, and last = n (first unset) yields
\* exactly n edges and HasPrevPage, for every after and before.
C3_Original ==
    (Done /\ FrameworkManaged /\ IsNil(out.err)) =>
        /\ (~IsNil(args.First) /\ IsNil(args.Last)
              /\ Deref(args.First) >= 0 /\ N > Deref(args.First))
            => (/\ ~IsNil(result.ret)
                /\ Len(Conn.Edges) = Deref(args.First)
                /\ Conn.PageInfo.HasNextPage)
        /\ (~IsNil(args.Last) /\ IsNil(args.First)
              /\ Deref(args.Last) >= 0 /\ N > Deref(args.Last))
            => (/\ ~IsNil(result.ret)
                /\ Len(Conn.Edges) = Deref(args.Last)
                /\ Conn.PageInfo.HasPrevPage)

\* The edges left of the full list once after and before have cut it.
AfterCursorCuts == applyCursorsToAllEdges(FullEdges, args.Before, args.After).edges

\* C3 amended: the same, whenever more than n edges remain after the after and
\* before cursors have cut the list (as when neither matches an edge).
C3_CountedWindow ==
    (Done /\ FrameworkManaged /\ IsNil(out.err)) =>
        /\ (~IsNil(args.First) /\ IsNil(args.Last)
              /\ Deref(args.First) >= 0 /\ Len(AfterCursorCuts) > Deref(args.First))
            => (/\ ~IsNil(result.ret)
                /\ Conn.Edges = SubSeq(AfterCursorCuts, 1, Deref(args.First))
                /\ Len(Conn.Edges) = Deref(args.First)
                /\ Conn.PageInfo.HasNextPage)
        /\ (~IsNil(args.Last) /\ IsNil(args.First)
              /\ Deref(args.Last) >= 0 /\ Len(AfterCursorCuts) > Deref(args.Last))
            => (/\ ~IsNil(result.ret)
                /\ Conn.Edges = SubSeq(AfterCursorCuts,
                                       Len(AfterCursorCuts) - Deref(args.Last) + 1,
                                       Len(AfterCursorCuts))
                /\ Len(Conn.Edges) = Deref(args.Last)
                /\ Conn.PageInfo.HasPrevPage)

\* C3's case: first = 1 behind a matching after cursor that leaves 2 edges.
C3_Witness ==
    /\ Done /\ FrameworkManaged /\ Returned
    /\ args.First = Ptr(1) /\ IsNil(args.Last)
    /\ Matches(args.After) /\ Len(AfterCursorCuts) = 2
    /\ Len(Conn.Edges) = 1 /\ Conn.PageInfo.HasNextPage

\* C4: with no first, last, after or before, a non-empty list comes back whole
\* and in order, with both page flags false, the start and end cursors of the
\* first and last edge, and TotalCount the number of nodes.
C4_NoArguments ==
    (/\ Done /\ FrameworkManaged /\ N > 0 /\ IsNil(out.err)
     /\ IsNil(args.First) /\ IsNil(args.Last)
     /\ IsNil(args.After) /\ IsNil(args.Before))
    => /\ ~IsNil(result.ret)
       /\ Conn.Edges = FullEdges
       /\ ~Conn.PageInfo.HasNextPage /\ ~Conn.PageInfo.HasPrevPage
       /\ Conn.PageInfo.StartCursor = CursorOf(1)
       /\ Conn.PageInfo.EndCursor = CursorOf(N)
       /\ Conn.TotalCount = N

C4_Witness ==
    /\ Returned /\ FrameworkManaged /\ N = MaxLen
    /\ IsNil(args.First) /\ IsNil(args.Last)
    /\ IsNil(args.After) /\ IsNil(args.Before)
    /\ Conn.PageInfo.StartCursor # Conn.PageInfo.EndCursor

\* C5: a framework-managed Connection's TotalCount is the number of nodes the
\* resolver returned, whatever the window kept.
C5_TotalCount ==
    (Returned /\ FrameworkManaged) => Conn.TotalCount = N

\* C5's case: the window kept fewer edges than the resolver returned.
C5_Witness ==
    /\ Returned /\ FrameworkManaged
    /\ Len(Conn.Edges) < N /\ Conn.TotalCount = N

\* C6: an after (before) cursor that matches no edge of the full list changes
\* nothing: the result is the one of the same request without it.
C6_UnmatchedCursorIsNoOp ==
    Done =>
        /\ MatchesNone(args.After) =>
             result = extractPaginatedRetAndErr(c, out, [args EXCEPT !.After = Nil])
        /\ MatchesNone(args.Before) =>
             result = extractPaginatedRetAndErr(c, out, [args EXCEPT !.Before = Nil])

\* C6's case: last: 2, before: "" over a longer list.
C6_Witness ==
    /\ Returned /\ MatchesNone(args.Before) /\ IsNil(args.After)
    /\ args.Last = Ptr(2) /\ N > 2
    /\ Len(Conn.Edges) = 2 /\ Conn.PageInfo.HasPrevPage

\* The 0-based indices whose edge is a page marker for `limit` over n edges.
MarkerIndices(n, limit) ==
    {i \in 0..(n - 1) : limit # 0 /\ i # n - 1 /\ (i + 1) % limit = 0}

\* The j-th smallest element of the set S of numbers.
Nth(S, j) == CHOOSE i \in S : Cardinality({k \in S : k < i}) = j - 1

\* C7: the page markers of a non-empty list are "" and then, in order, the
\* cursor of every edge of the full list at a marker index for
\* limit = first if set, else last, else 0; after and before play no part.
C7_PageMarkers ==
    (Returned /\ N > 0) =>
        LET limit == IF ~IsNil(args.First) THEN Deref(args.First)
                     ELSE IF ~IsNil(args.Last) THEN Deref(args.Last) ELSE 0
            idx == MarkerIndices(N, limit)
            pages == Conn.PageInfo.Pages
        IN  /\ Len(pages) = 1 + Cardinality(idx)
            /\ pages[1] = <<>>
            /\ \A j \in 1..Cardinality(idx) : pages[j + 1] = CursorOf(Nth(idx, j) + 1)

\* C7's case: page size 1 over a full-length list, behind a matching cursor.
C7_Witness ==
    /\ Returned /\ N = MaxLen /\ args.First = Ptr(1) /\ Matches(args.After)
    /\ Len(Conn.PageInfo.Pages) = MaxLen

\* C8: over n >= 1 nodes with distinct keys, none printing as "", and page
\* size L >= 1, Pages has ceil(n/L) entries and first = L, after = Pages[i]
\* returns the edges at 0-based positions (i-1)*L .. min(i*L, n) - 1 (Pages
\* indexed from 1 here).
C8_PageNavigation ==
    (/\ Returned /\ FrameworkManaged /\ N >= 1 /\ DistinctKeys /\ NoEmptyKeyText
     /\ ~IsNil(args.First) /\ Deref(args.First) >= 1 /\ IsNil(args.Last))
    => LET L == Deref(args.First) IN
       /\ Len(Conn.PageInfo.Pages) = (N + L - 1) \div L
       /\ (page # 0 /\ IsNil(args.Before)) =>
            Conn.Edges = SubSeq(FullEdges, (page - 1) * L + 1, Min(page * L, N))

\* C8's case: the client followed the last marker of a list of several pages.
C8_Witness ==
    /\ Returned /\ FrameworkManaged /\ DistinctKeys /\ NoEmptyKeyText
    /\ ~IsNil(args.First) /\ Deref(args.First) >= 1
    /\ page > 1 /\ page = Len(Conn.PageInfo.Pages)
    /\ Len(Conn.Edges) >= 1

Rejected ==
    \/ safeInt64Ptr(args.First) < 0
    \/ safeInt64Ptr(args.Last) < 0
    \/ (~IsNil(args.First) /\ ~IsNil(args.Last))

C10_NoWindowing ==
    (Done /\ IsExternallyManaged(c)) =>
        /\ ~IsClientError(result)
        /\ ~IsNil(result.ret) => Conn.Edges = FullEdges

\* C11: in externally-managed mode every Connection that is returned, for an
\* empty list as for any other, has the HasNextPage, HasPrevPage and
\* TotalCount of the PaginationInfo the resolver returned.
C11_ExternalPageInfo ==
    (Returned /\ ~FrameworkManaged)
        => /\ Conn.PageInfo.HasNextPage = Deref(out.info).HasNextPage
           /\ Conn.PageInfo.HasPrevPage = Deref(out.info).HasPrevPage
           /\ Conn.TotalCount = TotalCount(Deref(out.info))

----------------------------------------------------------------------------
(* The cursor cut and the window between two cursors.                      *)

\* The index of the edge of the full list that getCursorIndex finds for p.
FirstMatch(p) ==
    CHOOSE i \in 1..N :
        /\ CursorOf(i) = Deref(p)
        /\ \A j \in 1..(i - 1) : CursorOf(j) # Deref(p)
\* The flags applyCursorsToAllEdges gives for the request on the full list.
CursorCut == applyCursorsToAllEdges(getEdges(c.Key, out.ret), args.Before, args.After)
\* The place in the full list of an edge of a list of distinct keys.
PositionOf(e) == CHOOSE i \in 1..N : FullEdges[i] = e
ReturnedPositions == {PositionOf(Conn.Edges[k]) : k \in 1..Len(Conn.Edges)}

\* C16: for every combination of after and before, elemsAfter is true exactly
\* when before matches an edge followed by at least one edge of the full list,
\* and elemsBefore exactly when after matches an edge preceded by at least one
\* edge of the full list; so without first and last HasNextPage is true only
\* if an edge of the full list follows the edge before matches.
C16_CursorFlagsExact ==
    (Done /\ N > 0)
        => /\ CursorCut.elemsAfter
                <=> (Matches(args.Before) /\ FirstMatch(args.Before) < N)
           /\ CursorCut.elemsBefore
                <=> (Matches(args.After) /\ FirstMatch(args.After) > 1)
           /\ (/\ Returned /\ FrameworkManaged
               /\ IsNil(args.First) /\ IsNil(args.Last)
               /\ Conn.PageInfo.HasNextPage)
                => (Matches(args.Before) /\ FirstMatch(args.Before) < N)

\* C18 as stated: over distinct keys every returned edge lies strictly after
\* the edge after matches and strictly before the edge before matches, and
\* nothing is returned when the before edge is at or ahead of the after edge.
C18_Original ==
    (Returned /\ FrameworkManaged /\ DistinctKeys)
        => /\ Matches(args.After)
                => \A i \in ReturnedPositions : i > FirstMatch(args.After)
           /\ Matches(args.Before)
                => \A i \in ReturnedPositions : i < FirstMatch(args.Before)
           /\ (/\ Matches(args.After) /\ Matches(args.Before)
               /\ FirstMatch(args.Before) <= FirstMatch(args.After))
                => Conn.Edges = <<>>

\* The before cursor cuts: it matches an edge the after cut has left.
BeforeCuts ==
    /\ Matches(args.Before)
    /\ Matches(args.After) => FirstMatch(args.Before) > FirstMatch(args.After)
\* The request with its before cursor taken out.
WithoutBefore == [args EXCEPT !.Before = Nil]

\* C18: over distinct keys every returned edge lies strictly after the edge
\* after matches; every returned edge lies strictly before the edge before
\* matches when that edge is behind the after edge or after matches nothing;
\* a before edge at or ahead of the after edge leaves the edges those of the
\* request without before.
C18_WindowBetweenCursors ==
    (Returned /\ FrameworkManaged /\ DistinctKeys)
        => /\ Matches(args.After)
                => \A i \in ReturnedPositions : i > FirstMatch(args.After)
           /\ BeforeCuts
                => \A i \in ReturnedPositions : i < FirstMatch(args.Before)
           /\ (Matches(args.Before) /\ ~BeforeCuts)
                => Conn.Edges =
                     Deref(extractPaginatedRetAndErr(c, out, WithoutBefore).ret).Edges

C18_Witness ==
    /\ Returned /\ FrameworkManaged /\ DistinctKeys /\ N = 3
    /\ Matches(args.After) /\ Matches(args.Before)
    /\ FirstMatch(args.After) = 1 /\ FirstMatch(args.Before) = 3
    /\ IsNil(args.First) /\ IsNil(args.Last)
    /\ ReturnedPositions = {2}

----------------------------------------------------------------------------
(* The schema build.                                                       *)

BuildDone == pc = "built"
\* The resolver takes an argument struct.
TakesArgs == Len(method.in) > 0 /\ method.in[1] # selectionSetType
EmbedsArgs == TakesArgs /\ method.in[1].embeds
\* The resolver's first return value is its result.
ResultFirst == Len(method.out) > 0 /\ method.out[1] \notin {errType, PaginationInfoType}
ReturnsInfo == \E i \in 1..Len(method.out) : method.out[i] = PaginationInfoType
\* The reserved names the resolver's argument struct declares itself.
DeclaredReserved == IF TakesArgs THEN method.in[1].fields \cap ReservedNames ELSE {}

\* C12: building fails whenever exactly one of "the argument type embeds
\* PaginationArgs" and "the resolver returns PaginationInfo" holds; Validate
\* passes when both or neither hold; a built field is externally managed
\* exactly when both hold.
C12_BindingModeValidation ==
    BuildDone
        => /\ (EmbedsArgs # ReturnsInfo) => (~field.built /\ ~IsNil(field.err))
           /\ (ResultFirst /\ EmbedsArgs = ReturnsInfo) => field.err # Ptr(ErrValidate)
           /\ field.built => (IsExternallyManaged(c) <=> (EmbedsArgs /\ ReturnsInfo))
           /\ field.built => (~IsExternallyManaged(c) <=> (~EmbedsArgs /\ ~ReturnsInfo))

C12_Witness ==
    /\ BuildDone /\ ~EmbedsArgs /\ ReturnsInfo /\ ResultFirst
    /\ DeclaredReserved = {}
    /\ field.err = Ptr(ErrValidate)

\* C13: in both binding modes an argument struct that declares a field under
\* one of the names first, last, after, before makes the build fail, and the
\* arguments of a built field type every reserved name by the pagination
\* struct, never by a field of the resolver's struct.
C13_ReservedNamesRefused ==
    BuildDone
        => /\ DeclaredReserved # {} => (~field.built /\ ~IsNil(field.err))
           /\ field.built
                => \A n \in ReservedNames :
                     field.Args[n] \in {"ConnectionArgs", "PaginationArgs"}

\* The return shapes of a paginated resolver.
AcceptedShapes ==
    {<<"[]Item">>, <<"[]Item", errType>>, <<"[]Item", PaginationInfoType>>,
     <<"[]Item", PaginationInfoType, errType>>}
ReturnErrors == {Ptr(ErrReturnValues), Ptr(ErrNoReturn), Ptr(ErrNotSlice)}

\* C14: the return types (list), (list, error), (list, PaginationInfo) and
\* (list, PaginationInfo, error), list being a slice, pass the parsing of the
\* return signature and the slice check; every other sequence of return types
\* makes the build fail.
C14_ReturnShapes ==
    BuildDone
        => /\ method.out \notin AcceptedShapes => (~field.built /\ ~IsNil(field.err))
           /\ method.out \in AcceptedShapes => field.err \notin ReturnErrors
           /\ field.built => method.out \in AcceptedShapes

C14_Witness ==
    /\ BuildDone /\ field.built
    /\ method.out = <<"[]Item", PaginationInfoType, errType>>
    /\ c.ReturnsPageInfo /\ c.hasError /\ c \in Contexts

----------------------------------------------------------------------------
(* The forward traversal.                                                  *)

PageSize == Deref(args.First)
\* ceil(N / PageSize)
PagesNeeded == (N + PageSize - 1) \div PageSize
\* The edges of the first k pages of the trail, one after the other.
RECURSIVE EdgesOfTrail(_)
EdgesOfTrail(k) ==
    IF k = 0 THEN <<>> ELSE EdgesOfTrail(k - 1) \o Deref(trail[k]).Edges

\* C17: a forward traversal of n >= 1 nodes of distinct keys with page size
\* L >= 1 makes at most ceil(n/L) requests, every page is returned, the pages
\* received so far are the first edges of the full list in order, and a page
\* has HasNextPage exactly when it is not the ceil(n/L)-th: the traversal
\* stops after exactly ceil(n/L) requests with the full list.
C17_ForwardTraversal ==
    (Done /\ FrameworkManaged /\ N >= 1 /\ DistinctKeys /\ PageSize >= 1)
        => /\ Len(trail) <= PagesNeeded
           /\ \A k \in 1..Len(trail) :
                /\ ~IsNil(trail[k])
                /\ Deref(trail[k]).PageInfo.HasNextPage <=> k < PagesNeeded
           /\ EdgesOfTrail(Len(trail)) = SubSeq(FullEdges, 1, Min(Len(trail) * PageSize, N))
           /\ ~Conn.PageInfo.HasNextPage
                => (Len(trail) = PagesNeeded /\ EdgesOfTrail(Len(trail)) = FullEdges)

C17_Witness ==
    /\ Done /\ FrameworkManaged /\ DistinctKeys
    /\ N = 3 /\ PageSize = 2 /\ Len(trail) = 2
    /\ ~Conn.PageInfo.HasNextPage
    /\ Len(Conn.Edges) = 1

----------------------------------------------------------------------------
(* Concurrent requests.                                                    *)

Requests == DOMAIN reqs
\* Whether the ConnectionArgs of request r carries arguments of the resolver.
CarriesArgs(r) == ~IsNil(reqs[r].args.Args)
\* Request r has called the resolver.
Called(r) == reqs[r].pc \in {"prepared", "done"}

\* C15: no step of a request's resolution writes a variable another
\* resolution of the field sees: the connectionContext the Resolve closure
\* shares stays as buildPaginatedField left it.
C15_NoSharedWrite == [][c' = c]_vars

\* C19: in every interleaving of requests to one framework-managed field whose
\* arguments its own parser produced, every value of hasArgs a request loads
\* is whether its own ConnectionArgs carries arguments of the resolver, no
\* request panics on a nil Args, and the argument list it calls the resolver
\* with holds its own arguments exactly when the resolver takes arguments.
C19_OwnHasArgs ==
    \A r \in Requests :
        /\ \A k \in 1..Len(reqs[r].seen) : reqs[r].seen[k] = CarriesArgs(r)
        /\ reqs[r].pc # "panic"
        /\ Called(r)
            => /\ reqs[r].in = IF CarriesArgs(r) THEN <<reqs[r].args.Args>> ELSE <<>>
               /\ Len(reqs[r].in) = IF TakesArgs THEN 1 ELSE 0

C19_Witness ==
    /\ Requests # {}
    /\ \A r \in Requests : reqs[r].pc = "done" /\ ~CarriesArgs(r) /\ Len(reqs[r].seen) = 2
    /\ \E r \in Requests : "first" \in DOMAIN reqs[r].json
    /\ \E r \in Requests : "first" \notin DOMAIN reqs[r].json
    /\ ~c.hasArgs

====
